---- MODULE Spec2Model ----
(***************************************************************************)
(* Model of scraper.ts: the development application scraper of the City    *)
(* of Norwood, Payneham and St Peters.  Text is modelled as sequences of   *)
(* one-character strings so that trimming, the whitespace regular          *)
(* expression and the date parser can be computed character by character.  *)
(***************************************************************************)
EXTENDS Integers, Sequences, FiniteSets, TLC

\* ---------------------------------------------------------------- bounds
MaxTextLen == 4
MaxHeadings == 2
MaxRows == 2
MaxBlocks == 2

\* ------------------------------------------------------------ characters
WhiteSpace == {" ", "\t", "\n"}
DigitSeq == <<"0", "1", "2", "3", "4", "5", "6", "7", "8", "9">>
Digits == {DigitSeq[i] : i \in 1..10}
DigitVal(c) == (CHOOSE i \in 1..10 : DigitSeq[i] = c) - 1

RECURSIVE SeqsUpTo(_, _)
SeqsUpTo(S, n) ==
    IF n = 0 THEN {<<>>}
    ELSE LET shorter == SeqsUpTo(S, n - 1)
         IN  shorter \cup {Append(s, x) : s \in {t \in shorter : Len(t) = n - 1}, x \in S}

\* ------------------------------------------------- String.prototype.trim
RECURSIVE TrimLeft(_)
TrimLeft(s) ==
    IF s = <<>> THEN <<>>
    ELSE IF Head(s) \in WhiteSpace THEN TrimLeft(Tail(s)) ELSE s

RECURSIVE TrimRight(_)
TrimRight(s) ==
    IF s = <<>> THEN <<>>
    ELSE IF s[Len(s)] \in WhiteSpace THEN TrimRight(SubSeq(s, 1, Len(s) - 1)) ELSE s

Trim(s) == TrimRight(TrimLeft(s))

\* ------------------------------------------- replace(/\s\s+/g, " ")
\* Length of the whitespace run that starts at the head of s.
RECURSIVE RunLength(_)
RunLength(s) ==
    IF s = <<>> \/ Head(s) \notin WhiteSpace THEN 0 ELSE 1 + RunLength(Tail(s))

\* A plausible slip: the pattern /\s+/g, which also rewrites a lone whitespace character.
RECURSIVE ReplaceRunsAnyLength(_)
ReplaceRunsAnyLength(s) ==
    IF s = <<>> THEN <<>>
    ELSE LET n == RunLength(s)
         IN  IF n >= 1 THEN <<" ">> \o ReplaceRunsAnyLength(SubSeq(s, n + 1, Len(s)))
             ELSE <<Head(s)>> \o ReplaceRunsAnyLength(Tail(s))

\* The global, greedy, left to right match of /\s\s+/: a run of two or more
\* whitespace characters becomes one space, anything else is copied.
RECURSIVE ReplaceRuns(_)
ReplaceRuns(s) ==
    IF s = <<>> THEN <<>>
    ELSE LET n == RunLength(s)
         IN  IF n >= 2 THEN <<" ">> \o ReplaceRuns(SubSeq(s, n + 1, Len(s)))
             ELSE <<Head(s)>> \o ReplaceRuns(Tail(s))

\* $(headerElement).text().trim().replace(/\s\s+/g, " ")
AddressOf(text) == ReplaceRuns(Trim(text))

\* ------------------------------------------------------------ moment.js
\* moment.invalid()
InvalidMoment == [valid |-> FALSE, year |-> 0, month |-> 0, day |-> 0]

IsLeapYear(y) == (y % 4 = 0) /\ ((y % 100 # 0) \/ (y % 400 = 0))

DaysInMonth(y, m) ==
    IF m = 2 THEN (IF IsLeapYear(y) THEN 29 ELSE 28)
    ELSE IF m \in {4, 6, 9, 11} THEN 30 ELSE 31

\* Number of leading digits of s, at most max.
RECURSIVE LeadingDigits(_, _)
LeadingDigits(s, max) ==
    IF max = 0 \/ s = <<>> \/ Head(s) \notin Digits THEN 0
    ELSE 1 + LeadingDigits(Tail(s), max - 1)

RECURSIVE NumberOf(_)
NumberOf(s) ==
    IF s = <<>> THEN 0 ELSE 10 * NumberOf(SubSeq(s, 1, Len(s) - 1)) + DigitVal(s[Len(s)])

Drop(s, n) == SubSeq(s, n + 1, Len(s))

\* moment(value, "D/MM/YYYY", true): strict parsing.  D takes one or two digits
\* (greedy), MM exactly two, YYYY exactly four, the separators are literal and
\* nothing may be skipped or left over; an overflowing month or day is invalid.
ParseDate(value) ==
    LET dLen == LeadingDigits(value, 2)
        r1   == Drop(value, dLen)
        r2   == IF r1 # <<>> /\ Head(r1) = "/" THEN Tail(r1) ELSE <<>>
        mLen == LeadingDigits(r2, 2)
        r3   == Drop(r2, mLen)
        r4   == IF r3 # <<>> /\ Head(r3) = "/" THEN Tail(r3) ELSE <<>>
        yLen == LeadingDigits(r4, 4)
        r5   == Drop(r4, yLen)
        d    == NumberOf(SubSeq(value, 1, dLen))
        m    == NumberOf(SubSeq(r2, 1, mLen))
        y    == NumberOf(SubSeq(r4, 1, yLen))
    IN  IF /\ dLen >= 1 /\ r1 # <<>> /\ Head(r1) = "/"
           /\ mLen = 2 /\ r3 # <<>> /\ Head(r3) = "/"
           /\ yLen = 4 /\ r5 = <<>>
           /\ m \in 1..12 /\ d >= 1 /\ d <= DaysInMonth(y, m)
        THEN [valid |-> TRUE, year |-> y, month |-> m, day |-> d]
        ELSE InvalidMoment

\* Zero padded decimal rendering of n in w characters.
RECURSIVE Pad(_, _)
Pad(n, w) == IF w = 0 THEN <<>> ELSE Pad(n \div 10, w - 1) \o <<DigitSeq[(n % 10) + 1]>>

InvalidDateText == <<"I", "n", "v", "a", "l", "i", "d", " ", "d", "a", "t", "e">>

\* A plausible slip: the format string "DD-MM-YYYY".
FormatMomentDayFirst(m) ==
    IF m.valid THEN Pad(m.day, 2) \o <<"-">> \o Pad(m.month, 2) \o <<"-">> \o Pad(m.year, 4)
    ELSE InvalidDateText

\* moment#format("YYYY-MM-DD"); an invalid moment formats as the locale's invalidDate text.
FormatMoment(m) ==
    IF m.valid THEN Pad(m.year, 4) \o <<"-">> \o Pad(m.month, 2) \o <<"-">> \o Pad(m.day, 2)
    ELSE InvalidDateText

\* The condition the code tests is the property receivedDate.isValid, a function
\* object (the method is not called), which is truthy for every moment.
IsValidProperty(m) == TRUE

\* receivedDate.isValid ? receivedDate.format("YYYY-MM-DD") : ""
ReceivedDateText(m) == IF IsValidProperty(m) THEN FormatMoment(m) ELSE <<>>

\* ----------------------------------------------------------- constants
DevelopmentApplicationMainUrl == "https://ecouncil.npsp.sa.gov.au/eservice/daEnquiryInit.do?doc_typ=155&nodeNum=10209"
DevelopmentApplicationSearchUrl == "https://ecouncil.npsp.sa.gov.au/eservice/daEnquiry.do?number=&lodgeRangeType=on&dateFrom={0}&dateTo={1}&detDateFromString=&detDateToString=&streetName=&suburb=0&unitNum=&houseNum=0%0D%0A%09%09%09%09%09%09&planNumber=&strataPlan=&lotNumber=&propertyName=&searchMode=A&submitButton=Search"

KeyTypeOfWork == <<"T", "y", "p", "e", " ", "o", "f", " ", "W", "o", "r", "k">>
KeyApplicationNo == <<"A", "p", "p", "l", "i", "c", "a", "t", "i", "o", "n", " ", "N", "o", ".">>
KeyDateLodged == <<"D", "a", "t", "e", " ", "L", "o", "d", "g", "e", "d">>

\* ---------------------------------------------------- the search page
\* A page is the sequence of its h4.non_table_headers elements in document
\* order; a heading carries its text and the elements that follow it as
\* siblings, each with its tag and its p.rowDataOnly descendants, and a row
\* carries the text of its span.key and span.inputField children.
Row(k, v) == [key |-> k, value |-> v]
Div(rows) == [tag |-> "div", rows |-> rows]
Other(rows) == [tag |-> "p", rows |-> rows]
Heading(text, siblings) == [text |-> text, siblings |-> siblings]

\* A plausible slip: nextAll("div"), every following div sibling.
NextAllDiv(siblings) == SelectSeq(siblings, LAMBDA e : e.tag = "div")

\* $(headerElement).next("div").get(): the immediately following sibling, if it is a div.
NextDiv(siblings) ==
    IF siblings # <<>> /\ siblings[1].tag = "div" THEN <<siblings[1]>> ELSE <<>>

\* The rows of the selected container elements, in document order.
RECURSIVE RowsOf(_)
RowsOf(divs) == IF divs = <<>> THEN <<>> ELSE Head(divs).rows \o RowsOf(Tail(divs))

\* The if / else if chain on the trimmed key of one row.
ApplyRow(acc, row) ==
    LET key   == Trim(row.key)
        value == Trim(row.value)
    IN  IF key = KeyTypeOfWork THEN [acc EXCEPT !.reason = value]
        ELSE IF key = KeyApplicationNo THEN [acc EXCEPT !.applicationNumber = value]
        ELSE IF key = KeyDateLodged THEN [acc EXCEPT !.receivedDate = ParseDate(value)]
        ELSE acc

RECURSIVE ScanRows(_, _)
ScanRows(acc, rows) ==
    IF rows = <<>> THEN acc ELSE ScanRows(ApplyRow(acc, Head(rows)), Tail(rows))

\* The locals of one iteration of the heading loop after its inner loops.
Extract(h) ==
    ScanRows([address |-> AddressOf(h.text), applicationNumber |-> <<>>, reason |-> <<>>,
              receivedDate |-> InvalidMoment],
             RowsOf(NextDiv(h.siblings)))

\* A plausible slip: only the address is required.
AcceptAddressOnly(applicationNumber, address) == address # <<>>

\* applicationNumber !== "" && address !== ""
Accept(applicationNumber, address) == applicationNumber # <<>> /\ address # <<>>

\* moment().format("YYYY-MM-DD") on the day of the run.
Today == <<"2", "0", "2", "3", "-", "0", "1", "-", "3", "1">>

\* The object literal handed to insertRow.
DevelopmentApplication(e) ==
    [applicationNumber |-> e.applicationNumber,
     address           |-> e.address,
     reason            |-> e.reason,
     informationUrl    |-> DevelopmentApplicationMainUrl,
     scrapeDate        |-> Today,
     receivedDate      |-> ReceivedDateText(e.receivedDate)]

\* The six bound parameters, in the column order of the [data] table.
RowOf(da) ==
    [council_reference |-> da.applicationNumber,
     address           |-> da.address,
     description       |-> da.reason,
     info_url          |-> da.informationUrl,
     date_received     |-> da.receivedDate,
     date_scraped      |-> da.scrapeDate]

\* A plausible slip: a plain insert into a table without the primary key.
InsertAppend(rows, da) == rows \cup {RowOf(da)}

\* "insert or replace" on a table whose primary key is council_reference.
InsertOrReplace(rows, da) ==
    {r \in rows : r.council_reference # da.applicationNumber} \cup {RowOf(da)}

\* ------------------------------------------------------- input domains
TextChars == {"a", " ", "\t"}
Texts == SeqsUpTo(TextChars, MaxTextLen)

App7 == <<"7">>
App8 == <<"8">>
App123 == <<"1", "2", "3", "/", "2", "0", "2", "3">>
Carport == <<"C", "a", "r", "p", "o", "r", "t">>
SmithSt == <<"1", "2", " ", " ", "S", "m", "i", "t", "h", " ", " ", " ", "S", "t">>
NotADate == <<"n", "o", "t", " ", "a", " ", "d", "a", "t", "e">>

DayTexts == {<<"3">>, <<"0", "3">>, <<"3", "1">>, <<"2", "9">>, <<"3", "0">>, <<"0">>}
MonthTexts == {<<"1">>, <<"0", "1">>, <<"0", "2">>, <<"0", "4">>, <<"1", "3">>}
YearTexts == {<<"2", "0", "2", "3">>, <<"2", "0", "2", "4">>, <<"2", "3">>}
DateTexts ==
    {d \o <<"/">> \o m \o <<"/">> \o y : d \in DayTexts, m \in MonthTexts, y \in YearTexts}
        \cup {<<>>, NotADate, <<" ", "3", "/", "0", "1", "/", "2", "0", "2", "3", "\n">>}

RowSet ==
    {Row(KeyApplicationNo, <<" ", "7">>), Row(KeyApplicationNo, App8),
     Row(KeyApplicationNo, <<>>), Row(<<" ">> \o KeyTypeOfWork, Carport)}
\* What may stand right after a heading, and what may follow that.
Blocks ==
    {Div(rows) : rows \in SeqsUpTo(RowSet, MaxRows)}
        \cup {Other(<<>>), Other(<<Row(KeyApplicationNo, App8)>>)}
LaterBlocks ==
    {Div(<<Row(KeyApplicationNo, App8)>>), Div(<<Row(KeyTypeOfWork, Carport)>>), Other(<<>>)}
SiblingSeqs ==
    {<<>>} \cup {<<first>> \o rest : first \in Blocks, rest \in SeqsUpTo(LaterBlocks, MaxBlocks - 1)}

\* Pages that vary the heading text, the Date Lodged value and the structure
\* after the heading, one heading each.
TextPages == {<<Heading(t, <<Div(<<Row(KeyApplicationNo, App7)>>)>>)>> : t \in Texts}
DatePages ==
    {<<Heading(<<"a">>, <<Div(<<Row(KeyApplicationNo, App7), Row(KeyDateLodged, d)>>)>>)>> :
        d \in DateTexts}
StructurePages == {<<Heading(<<"a">>, sibs)>> : sibs \in SiblingSeqs}

\* Pages of several headings.
CoreHeadings ==
    {Heading(<<"a">>, <<Div(<<Row(KeyApplicationNo, App7), Row(KeyTypeOfWork, Carport),
                             Row(KeyDateLodged, <<"3", "/", "0", "1", "/", "2", "0", "2", "3">>)>>)>>),
     Heading(<<"b">>, <<Div(<<Row(KeyApplicationNo, App7)>>)>>),
     Heading(<<"b">>, <<Div(<<Row(KeyApplicationNo, App8)>>)>>),
     Heading(<<"a">>, <<Div(<<Row(KeyTypeOfWork, Carport)>>)>>),
     Heading(<<" ">>, <<Div(<<Row(KeyApplicationNo, App7)>>)>>),
     Heading(<<"a">>, <<>>)}
CorePages == SeqsUpTo(CoreHeadings, MaxHeadings)

\* The page of the extraction example, with the month written 1 and written 01.
ExamplePage(date) ==
    <<Heading(SmithSt, <<Div(<<Row(KeyApplicationNo, App123), Row(KeyTypeOfWork, Carport),
                               Row(KeyDateLodged, date)>>)>>)>>
Date3_1_2023 == <<"3", "/", "1", "/", "2", "0", "2", "3">>
Date3_01_2023 == <<"3", "/", "0", "1", "/", "2", "0", "2", "3">>

Pages ==
    TextPages \cup DatePages \cup StructurePages \cup CorePages
        \cup {ExamplePage(Date3_1_2023), ExamplePage(Date3_01_2023)}

SessionIds == {"s1", "s2"}

\* A row left in data.sqlite by an earlier run.
OldRow ==
    [council_reference |-> App7, address |-> <<"o", "l", "d">>, description |-> <<>>,
     info_url |-> DevelopmentApplicationMainUrl, date_received |-> <<>>,
     date_scraped |-> <<"2", "0", "2", "2", "-", "1", "2", "-", "3", "1">>]

\* ------------------------------------------------------------- state
VARIABLES
    pc,          \* where main() and the promise chain of the last line stand
    database,    \* the rows of the [data] table of data.sqlite
    jar,         \* the cookie jar of main(): [id, cookies], id 0 while not created
    requests,    \* the GETs sent so far: [url, jar, cookies, status]
    setCookie,   \* the session cookies the server has set in its responses
    page,        \* the headings of the search page, once loaded
    idx,         \* number of headings whose iteration has begun
    locals,      \* address, applicationNumber, reason, receivedDate of the last iteration
    writes,      \* the insertRow calls so far: [heading, da, status]
    console,     \* what the last line printed
    settled,     \* state of the promise returned by main()
    exitCode     \* -1 while the process runs, then its exit code

vars == <<pc, database, jar, requests, setCookie, page, idx, locals, writes, console, settled, exitCode>>

NoJar == 0

\* let applicationNumber = ""; let reason = ""; let receivedDate = moment.invalid();
NoLocals == [address |-> <<>>, applicationNumber |-> <<>>, reason |-> <<>>,
             receivedDate |-> InvalidMoment]

Init ==
    /\ pc = "start"
    /\ database \in {{}, {OldRow}}
    /\ jar = [id |-> NoJar, cookies |-> {}]
    /\ requests = <<>>
    /\ setCookie = {}
    /\ page = <<>>
    /\ idx = 0
    /\ locals = NoLocals
    /\ writes = <<>>
    /\ console = <<>>
    /\ settled = "pending"
    /\ exitCode = -1

\* request(options): the GET as it leaves, with the cookies of the jar it was given.
Request(options, j) ==
    [url     |-> options.url,
     jar     |-> options.jar,
     cookies |-> IF options.jar = j.id /\ options.jar # NoJar THEN j.cookies ELSE {},
     status  |-> "sent"]

MainRequestOptions(j) == [url |-> DevelopmentApplicationMainUrl, jar |-> j.id]

\* A plausible slip: the search request without the jar option.
SearchRequestOptionsNoJar(j) == [url |-> DevelopmentApplicationSearchUrl, jar |-> NoJar]

\* { url: developmentApplicationSearchUrl, jar: jar }
SearchRequestOptions(j) == [url |-> DevelopmentApplicationSearchUrl, jar |-> j.id]

\* A plausible slip: a failed request is tried again from the main page.
PcRetryAfterRequestError == "retrieve"

\* An awaited request that rejects is not caught inside main(): main() rejects.
PcAfterRequestError == "rejected"

\* A plausible slip: insertRow called without await.
PcAfterInsertCallNoAwait == "loop"

\* await insertRow(...): main() is suspended until the statement's callback.
PcAfterInsertCall == "insert"

\* await initializeDatabase(): the table is created if it does not exist; the
\* promise is resolved in the executor and is never rejected.
InitializeDatabase ==
    /\ pc = "start"
    /\ pc' = "retrieve"
    /\ UNCHANGED <<database, jar, requests, setCookie, page, idx, locals, writes, console, settled, exitCode>>

\* request.jar() and the GET of the main page.
RetrieveMainPage ==
    /\ pc = "retrieve"
    /\ LET j == [id |-> 1, cookies |-> {}]
       IN  /\ jar' = j
           /\ requests' = Append(requests, Request(MainRequestOptions(j), j))
    /\ pc' = "mainGet"
    /\ UNCHANGED <<database, setCookie, page, idx, locals, writes, console, settled, exitCode>>

\* The main page arrives with its session cookie, which the jar of the request
\* keeps; main() goes on to send the GET of the search results.
MainResponse(sid) ==
    /\ pc = "mainGet"
    /\ LET n == Len(requests)
           j == IF requests[n].jar = jar.id /\ jar.id # NoJar
                THEN [jar EXCEPT !.cookies = @ \cup {sid}] ELSE jar
       IN  /\ jar' = j
           /\ requests' = Append([requests EXCEPT ![n].status = "ok"],
                                  Request(SearchRequestOptions(j), j))
    /\ setCookie' = setCookie \cup {sid}
    /\ pc' = "searchGet"
    /\ UNCHANGED <<database, page, idx, locals, writes, console, settled, exitCode>>

\* Either GET fails (network or HTTP error): the awaited promise rejects.
RequestError ==
    /\ pc \in {"mainGet", "searchGet"}
    /\ requests' = [requests EXCEPT ![Len(requests)].status = "failed"]
    /\ pc' = PcAfterRequestError
    /\ settled' = IF PcAfterRequestError = "rejected" THEN "rejected" ELSE settled
    /\ UNCHANGED <<database, jar, setCookie, page, idx, locals, writes, console, exitCode>>

\* The search results arrive and are loaded by cheerio.
SearchResponse(body) ==
    /\ pc = "searchGet"
    /\ requests' = [requests EXCEPT ![Len(requests)].status = "ok"]
    /\ page' = body
    /\ pc' = "loop"
    /\ UNCHANGED <<database, jar, setCookie, idx, locals, writes, console, settled, exitCode>>

\* One iteration of the heading loop up to its await: the record is assembled
\* and, if accepted, handed to insertRow.
Iterate ==
    /\ pc = "loop"
    /\ idx < Len(page)
    /\ idx' = idx + 1
    /\ LET e == Extract(page[idx + 1])
       IN  /\ locals' = e
           /\ IF Accept(e.applicationNumber, e.address)
              THEN /\ writes' = Append(writes, [heading |-> idx + 1,
                                                da |-> DevelopmentApplication(e),
                                                status |-> "pending"])
                   /\ pc' = PcAfterInsertCall
              ELSE UNCHANGED <<writes, pc>>
    /\ UNCHANGED <<database, jar, requests, setCookie, page, console, settled, exitCode>>

\* The statement's callback without error: the row is in the table, main() resumes.
InsertDone ==
    /\ pc = "insert"
    /\ LET n == Len(writes)
       IN  /\ database' = InsertOrReplace(database, writes[n].da)
           /\ writes' = [writes EXCEPT ![n].status = "ok"]
    /\ pc' = "loop"
    /\ UNCHANGED <<jar, requests, setCookie, page, idx, locals, console, settled, exitCode>>

\* The statement's callback with an error: insertRow rejects and so does main().
InsertError ==
    /\ pc = "insert"
    /\ writes' = [writes EXCEPT ![Len(writes)].status = "failed"]
    /\ console' = Append(console, "error")
    /\ pc' = "rejected"
    /\ settled' = "rejected"
    /\ UNCHANGED <<database, jar, requests, setCookie, page, idx, locals, exitCode>>

\* The loop has run out of headings: main() resolves.
MainReturns ==
    /\ pc = "loop"
    /\ idx = Len(page)
    /\ pc' = "resolved"
    /\ settled' = "resolved"
    /\ UNCHANGED <<database, jar, requests, setCookie, page, idx, locals, writes, console, exitCode>>

\* .then(() => console.log("Complete."))
ThenHandler ==
    /\ pc = "resolved"
    /\ console' = Append(console, "Complete.")
    /\ pc' = "handled"
    /\ UNCHANGED <<database, jar, requests, setCookie, page, idx, locals, writes, settled, exitCode>>

\* .catch(error => console.error(error))
CatchHandler ==
    /\ pc = "rejected"
    /\ console' = Append(console, "error")
    /\ pc' = "handled"
    /\ UNCHANGED <<database, jar, requests, setCookie, page, idx, locals, writes, settled, exitCode>>

\* Nothing is left to run and no handler has set an exit code or thrown:
\* the process ends with code 0.
ProcessExit ==
    /\ pc = "handled"
    /\ exitCode' = 0
    /\ pc' = "exited"
    /\ UNCHANGED <<database, jar, requests, setCookie, page, idx, locals, writes, console, settled>>

Next ==
    \/ InitializeDatabase
    \/ RetrieveMainPage
    \/ \E sid \in SessionIds : MainResponse(sid)
    \/ RequestError
    \/ \E body \in Pages : SearchResponse(body)
    \/ Iterate
    \/ InsertDone
    \/ InsertError
    \/ MainReturns
    \/ ThenHandler
    \/ CatchHandler
    \/ ProcessExit

Spec == Init /\ [][Next]_vars

\* =============================================================== claims
SearchRequests == {i \in 1..Len(requests) : requests[i].url = DevelopmentApplicationSearchUrl}
MainRequests == {i \in 1..Len(requests) : requests[i].url = DevelopmentApplicationMainUrl}
HasText(t) == \E i \in 1..Len(t) : t[i] \notin WhiteSpace

\* C1: every search GET follows a main-page GET that has completed successfully,
\* is sent with the cookie jar of that GET, and carries the session cookie that
\* the main-page response set; none is sent with no jar or without cookies.
C1_SearchUsesSessionOfMainPage ==
    \A i \in SearchRequests :
        \E j \in MainRequests :
            /\ j < i
            /\ requests[j].status = "ok"
            /\ requests[j].jar # NoJar
            /\ requests[i].jar = requests[j].jar
            /\ requests[i].cookies # {}
            /\ requests[i].cookies = setCookie

C1_Witness == \E i \in SearchRequests : requests[i].status = "ok" /\ requests[i].cookies # {}

\* A heading with text whose first sibling is a block with Application No. rows, all with a value.
FullyValid(h) ==
    /\ HasText(h.text)
    /\ h.siblings # <<>>
    /\ h.siblings[1].tag = "div"
    /\ \E r \in 1..Len(h.siblings[1].rows) : Trim(h.siblings[1].rows[r].key) = KeyApplicationNo
    /\ \A r \in 1..Len(h.siblings[1].rows) :
           Trim(h.siblings[1].rows[r].key) = KeyApplicationNo
               => HasText(h.siblings[1].rows[r].value)

\* A heading with text and no Application No. row anywhere after it.
MissingApplicationNo(h) ==
    /\ HasText(h.text)
    /\ \A b \in 1..Len(h.siblings) : \A r \in 1..Len(h.siblings[b].rows) :
           Trim(h.siblings[b].rows[r].key) # KeyApplicationNo

TwoHeadingScenario ==
    /\ Len(page) = 2
    /\ \E i, j \in 1..2 : i # j /\ FullyValid(page[i]) /\ MissingApplicationNo(page[j])

\* C2: every record handed to insertRow has a non-empty applicationNumber and a
\* non-empty address, and a page of two headings, one fully valid and one
\* without an Application No. row, has produced exactly one insertRow call
\* when main() has run through it.
C2_OnlyKeyedRecordsReachTheSink ==
    /\ \A i \in 1..Len(writes) :
           /\ writes[i].da.applicationNumber # <<>>
           /\ writes[i].da.address # <<>>
           /\ ~MissingApplicationNo(page[writes[i].heading])
    /\ (TwoHeadingScenario /\ settled = "resolved") => Len(writes) = 1

C2_Witness == TwoHeadingScenario /\ settled = "resolved" /\ MissingApplicationNo(page[1])

IsCanonicalDate(t) ==
    /\ Len(t) = 10
    /\ t[5] = "-" /\ t[8] = "-"
    /\ \A i \in {1, 2, 3, 4, 6, 7, 9, 10} : t[i] \in Digits

\* C3: every record handed to insertRow has a receivedDate that is a YYYY-MM-DD
\* date or the empty string.
C3_ReceivedDateCanonicalOrEmpty ==
    \A i \in 1..Len(writes) :
        writes[i].da.receivedDate = <<>> \/ IsCanonicalDate(writes[i].da.receivedDate)

\* C4: the process ends with exit code 0 exactly when main() resolved; when
\* main() rejected the error is printed and the exit code is not 0.
C4_ExitCodeReflectsOutcome ==
    pc = "exited" =>
        /\ (exitCode = 0 <=> settled = "resolved")
        /\ (settled = "rejected" => console # <<>> /\ console[Len(console)] = "error")

\* C5: at most one GET of the main page and one of the search page are sent;
\* after a failed main-page GET there is no search GET and no insertRow call,
\* and after a failed search GET there is no insertRow call.
C5_TwoRequestsNoRetry ==
    /\ Cardinality(MainRequests) <= 1
    /\ Cardinality(SearchRequests) <= 1
    /\ (\E i \in MainRequests : requests[i].status = "failed")
           => SearchRequests = {} /\ writes = <<>>
    /\ (\E i \in SearchRequests : requests[i].status = "failed") => writes = <<>>
    /\ (\E i \in 1..Len(requests) : requests[i].status = "failed")
           => pc \in {"rejected", "handled", "exited"}

C5_Witness ==
    /\ pc = "exited"
    /\ \E i \in SearchRequests : requests[i].status = "failed"

\* The last successful insertRow call for an application number.
LastWriteOf(i) ==
    /\ writes[i].status = "ok"
    /\ \A k \in (i + 1)..Len(writes) :
           writes[k].status = "ok" => writes[k].da.applicationNumber # writes[i].da.applicationNumber

ExampleRecordWritten ==
    /\ Len(writes) = 1
    /\ writes[1].da.applicationNumber = App123
    /\ writes[1].da.address = <<"1", "2", " ", "S", "m", "i", "t", "h", " ", "S", "t">>
    /\ writes[1].da.reason = Carport
    /\ writes[1].da.receivedDate = <<"2", "0", "2", "3", "-", "0", "1", "-", "0", "3">>

\* C7 as stated: the example page with Date Lodged=3/1/2023 yields exactly one
\* record, 123/2023, "12 Smith St", Carport, 2023-01-03.
C7_ExampleWithOneDigitMonth ==
    (page = ExamplePage(Date3_1_2023) /\ idx = 1) => ExampleRecordWritten

\* C7 amended: the example page with Date Lodged=3/01/2023 yields exactly one
\* record, 123/2023, "12 Smith St", Carport, 2023-01-03.
C7_ExampleWithTwoDigitMonth ==
    (page = ExamplePage(Date3_01_2023) /\ idx = 1) => ExampleRecordWritten

C7_Witness == page = ExamplePage(Date3_01_2023) /\ idx = 1 /\ settled = "resolved"

\* The text t between positions i and hi with whitespace runs collapsed: the
\* first character of a run of at least minRun whitespace characters becomes a
\* space, the rest of a run is dropped, everything else is kept.
RECURSIVE Collapsed(_, _, _, _)
Collapsed(t, i, hi, minRun) ==
    IF i > hi THEN <<>>
    ELSE (IF t[i] \notin WhiteSpace THEN <<t[i]>>
          ELSE IF t[i - 1] \in WhiteSpace THEN <<>>
          ELSE IF minRun <= 1 \/ t[i + 1] \in WhiteSpace THEN <<" ">>
          ELSE <<t[i]>>) \o Collapsed(t, i + 1, hi, minRun)

\* The same between the first and the last character that is not whitespace.
Normalized(t, minRun) ==
    LET inked == {i \in 1..Len(t) : t[i] \notin WhiteSpace}
    IN  IF inked = {} THEN <<>>
        ELSE Collapsed(t, CHOOSE i \in inked : \A k \in inked : i <= k,
                          CHOOSE i \in inked : \A k \in inked : i >= k, minRun)

\* C8 as stated: the address is the heading text with every run of whitespace,
\* of any length, replaced by one space and the ends trimmed.
C8_EveryRunBecomesOneSpace ==
    idx >= 1 => locals.address = Normalized(page[idx].text, 1)

\* C8 amended: the address is the heading text with every run of two or more
\* whitespace characters replaced by one space and the ends trimmed; a
\* whitespace character that stands alone inside the text is kept as it is.
C8_RunsOfTwoOrMoreBecomeOneSpace ==
    idx >= 1 => locals.address = Normalized(page[idx].text, 2)

C8_Witness ==
    /\ idx >= 1
    /\ page[idx].text = <<"a", "\t", "a">>
    /\ locals.address = <<"a", "\t", "a">>

\* C9: at most one insertRow call is outstanding, it is the latest one, every
\* earlier call had completed successfully when a later one began, and the
\* calls follow the document order of the headings.
C9_WritesAreSerialised ==
    /\ Cardinality({i \in 1..Len(writes) : writes[i].status = "pending"}) <= 1
    /\ \A i, j \in 1..Len(writes) :
           i < j => writes[i].status = "ok" /\ writes[i].heading < writes[j].heading
    /\ (\E i \in 1..Len(writes) : writes[i].status = "pending") => pc = "insert"

C9_Witness == Len(writes) = 2 /\ writes[2].status = "pending"

\* The trimmed value of the last row with the given key among the rows of the
\* first nb siblings of the heading, or the empty text.
LastValue(h, key, nb) ==
    LET occ == UNION {{<<b, r>> : r \in {x \in 1..Len(h.siblings[b].rows) :
                                             Trim(h.siblings[b].rows[x].key) = key}} :
                      b \in 1..nb}
        After(x, y) == x[1] > y[1] \/ (x[1] = y[1] /\ x[2] >= y[2])
    IN  IF occ = {} THEN <<>>
        ELSE LET last == CHOOSE x \in occ : \A y \in occ : After(x, y)
             IN  Trim(h.siblings[last[1]].rows[last[2]].value)

SeveralBlocks(h) ==
    /\ Len(h.siblings) >= 2
    /\ \A b \in 1..Len(h.siblings) : h.siblings[b].tag = "div"

\* C10 as stated: when a heading is followed by more than one details block,
\* the rows of all of them contribute to the record.
C10_AllBlocksScanned ==
    (idx >= 1 /\ SeveralBlocks(page[idx])) =>
        /\ locals.applicationNumber = LastValue(page[idx], KeyApplicationNo, Len(page[idx].siblings))
        /\ locals.reason = LastValue(page[idx], KeyTypeOfWork, Len(page[idx].siblings))

\* C10 amended: when a heading is followed by more than one details block,
\* only the rows of the first block, the heading's next sibling, contribute to
\* the record; the rows of the later blocks are not scanned.
C10_OnlyFirstBlockScanned ==
    (idx >= 1 /\ SeveralBlocks(page[idx])) =>
        /\ locals.applicationNumber = LastValue(page[idx], KeyApplicationNo, 1)
        /\ locals.reason = LastValue(page[idx], KeyTypeOfWork, 1)

C10_Witness ==
    /\ idx >= 1
    /\ SeveralBlocks(page[idx])
    /\ LastValue(page[idx], KeyApplicationNo, 1) = App7
    /\ LastValue(page[idx], KeyApplicationNo, 2) = App8
    /\ locals.applicationNumber = App7

====
